---- MODULE Spec2Model ----
(***************************************************************************)
(* Model of fetch_departures.js: the two directional pipelines             *)
(* (fetchBadVoeslauDepartures, fetchWienDepartures), transformTrainData,    *)
(* the snapshot assembly and exit logic of fetchDepartures, and the guard   *)
(* of run_app.sh.                                                           *)
(*                                                                          *)
(* Strings are sequences of one-character tokens, so that toLowerCase,      *)
(* String.prototype.includes and the line-code regular expression are       *)
(* computed rather than assumed.  The letters o-umlaut / O-umlaut are the   *)
(* tokens "o_uml" / "O_uml".  A JavaScript value that may be null or        *)
(* undefined is an option: <<>> when missing, <<v>> when present.           *)
(***************************************************************************)
EXTENDS Integers, Sequences, FiniteSets, TLC

\* ------------------------------------------------------------------------
\* Bounds of the model
\* ------------------------------------------------------------------------
MaxStations == 2      \* longest hafas.locations result
MaxDeps == 1          \* longest hafas.departures result in the pipelines
MaxFilterLen == 2     \* longest departure list given to the filters alone
MaxTrains == 2        \* longest list given to transformTrainData alone

\* ------------------------------------------------------------------------
\* Options and strings
\* ------------------------------------------------------------------------
None == <<>>
Some(v) == <<v>>
IsSome(o) == o # <<>>
Val(o) == o[1]

\* All sequences over S of length at most n.
SeqsUpTo(S, n) == UNION {[1..k -> S] : k \in 0..n}

UpperChars ==
  <<"A","B","C","D","E","F","G","H","I","J","K","L","M","N","O","P","Q","R",
    "S","T","U","V","W","X","Y","Z","O_uml">>
LowerChars ==
  <<"a","b","c","d","e","f","g","h","i","j","k","l","m","n","o","p","q","r",
    "s","t","u","v","w","x","y","z","o_uml">>

\* String.prototype.toLowerCase
toLowerChar(c) ==
  IF \E i \in 1..Len(UpperChars) : UpperChars[i] = c
  THEN LowerChars[CHOOSE i \in 1..Len(UpperChars) : UpperChars[i] = c]
  ELSE c
toLowerCase(s) == [i \in 1..Len(s) |-> toLowerChar(s[i])]

\* String.prototype.includes
includes(s, k) ==
  \E i \in 0..(Len(s) - Len(k)) : SubSeq(s, i + 1, i + Len(k)) = k

\* The regular-expression class \s, as far as the inputs of the model go.
Whitespace == {" ", "TAB"}

\* ------------------------------------------------------------------------
\* String literals of the program and of the modelled upstream data
\* ------------------------------------------------------------------------
kwWien == <<"w","i","e","n">>
kwVienna == <<"v","i","e","n","n","a">>
kwWrNeustadt == <<"w","r",".","n","e","u","s","t","a","d","t">>
kwWienerNeustadt ==
  <<"w","i","e","n","e","r"," ","n","e","u","s","t","a","d","t">>
kwBadVoeslauUml == <<"b","a","d"," ","v","o_uml","s","l","a","u">>
kwBadVoeslau == <<"b","a","d"," ","v","o","e","s","l","a","u">>
kwWienHbf == <<"w","i","e","n"," ","h","b","f">>
kwWienHauptbahnhof ==
  <<"w","i","e","n"," ","h","a","u","p","t","b","a","h","n","h","o","f">>

strUnknown == <<"U","n","k","n","o","w","n">>
strNA == <<"N","/","A">>
strFallbackId == <<"1","1","9","0","1","0","0">>
strFallbackName ==
  <<"W","i","e","n"," ","H","b","f"," ","(","f","o","r","c","e","d"," ",
    "f","a","l","l","b","a","c","k",")">>

sWienHbf == <<"W","i","e","n"," ","H","b","f">>
sWienHauptbahnhof ==
  <<"W","i","e","n"," ","H","a","u","p","t","b","a","h","n","h","o","f">>
sWIEN == <<"W","I","E","N">>
sVienna == <<"V","i","e","n","n","a">>
sBaden == <<"B","a","d","e","n">>
sBadVoeslauUml == <<"B","a","d"," ","V","o_uml","s","l","a","u">>
sBADVOESLAUUml == <<"B","A","D"," ","V","O_uml","S","L","A","U">>
sBadVoeslau == <<"B","a","d"," ","V","o","e","s","l","a","u">>
sWrNeustadt == <<"W","r",".","N","e","u","s","t","a","d","t"," ","H","b","f">>
sWienerNeustadt ==
  <<"W","i","e","n","e","r"," ","N","e","u","s","t","a","d","t">>
sWienMeidling == <<"W","i","e","n"," ","M","e","i","d","l","i","n","g">>
sPayerbach == <<"P","a","y","e","r","b","a","c","h">>

sREX1 == <<"R","E","X","1">>
sREX_1 == <<"R","E","X"," ","1">>
sREX3 == <<"R","E","X","3">>
sREX_3 == <<"R","E","X"," ","3">>
sREXtab3 == <<"R","E","X","TAB","3">>
sS3 == <<"S","3">>
sS_3 == <<"S"," ","3">>
sS_30 == <<"S"," ","3","0">>
sS_1 == <<"S"," ","1">>
sRJ131 == <<"R","J"," ","1","3","1">>
srex3 == <<"r","e","x"," ","3">>
sPlatform2 == <<"2">>

\* ------------------------------------------------------------------------
\* Values of the upstream timetable source
\* ------------------------------------------------------------------------
\* A station of hafas.locations: an id and a name that may be missing.
Station(id, name) == [id |-> id, name |-> name]

\* A departure of hafas.departures.  destination is destination?.name,
\* lineName and lineMode are line?.name and line?.mode; when is the instant
\* in seconds since the Unix epoch, delay is in seconds.
Dep(destination, direction, lineName, lineMode, when, delay, platform, cancelled) ==
  [destination |-> destination, direction |-> direction, lineName |-> lineName,
   lineMode |-> lineMode, when |-> when, delay |-> delay,
   platform |-> platform, cancelled |-> cancelled]

\* x || dflt for a string x that may be missing: the empty string is falsy.
OrDefault(o, dflt) == IF IsSome(o) /\ Val(o) # <<>> THEN Val(o) ELSE dflt

\* x?.toLowerCase() || ''
LowerOrEmpty(o) == IF IsSome(o) THEN OrDefault(Some(toLowerCase(Val(o))), <<>>) ELSE <<>>

\* ------------------------------------------------------------------------
\* Station resolution
\* ------------------------------------------------------------------------
\* The callback of stations.find in fetchBadVoeslauDepartures.
isBadVoeslauCandidate(station) ==
  /\ IsSome(station.name)
  /\ Val(station.name) # <<>>
  /\ includes(toLowerCase(Val(station.name)), kwBadVoeslauUml)

\* The callback of stations?.find in fetchWienDepartures.
isWienCandidate(station) ==
  LET name == LowerOrEmpty(station.name)
  IN  includes(name, kwWienHbf) \/ includes(name, kwWienHauptbahnhof)

\* The resolver that takes the first candidate whatever its name.
resolveBadVoeslauStation_first(stations) == stations[1]

\* stations.find(...) || stations[0], for a non-empty list.
resolveBadVoeslauStation(stations) ==
  LET hits == {i \in 1..Len(stations) : isBadVoeslauCandidate(stations[i])}
  IN  IF hits # {}
      THEN stations[CHOOSE i \in hits : \A j \in hits : i <= j]
      ELSE stations[1]

\* The forced fallback of fetchWienDepartures.
wienFallbackStation == Station(strFallbackId, Some(strFallbackName))

\* The resolver that falls back to the first returned candidate, as the
\* origin's does.
resolveWienStation_firstCandidate(stations) ==
  LET list == IF IsSome(stations) THEN Val(stations) ELSE <<>>
      hits == {i \in 1..Len(list) : isWienCandidate(list[i])}
  IN  IF hits # {}
      THEN list[CHOOSE i \in hits : \A j \in hits : i <= j]
      ELSE IF Len(list) > 0 THEN list[1] ELSE wienFallbackStation

\* stations?.find(...) with the forced fallback; stations is an option, a
\* missing list finds nothing.
resolveWienStation(stations) ==
  LET list == IF IsSome(stations) THEN Val(stations) ELSE <<>>
      hits == {i \in 1..Len(list) : isWienCandidate(list[i])}
  IN  IF hits # {}
      THEN list[CHOOSE i \in hits : \A j \in hits : i <= j]
      ELSE wienFallbackStation

\* ------------------------------------------------------------------------
\* Direction filters
\* ------------------------------------------------------------------------
wienKeywords == {kwWien, kwVienna}
routeKeywords == {kwWrNeustadt, kwWienerNeustadt, kwBadVoeslauUml, kwBadVoeslau}

\* keywords.some(keyword => destination.includes(keyword) || direction.includes(keyword))
someKeyword(keywords, destination, direction) ==
  \E keyword \in keywords :
    includes(destination, keyword) \/ includes(direction, keyword)

\* The outbound callback without the test of line.mode.
isTrainToVienna_anyMode(departure) ==
  someKeyword(wienKeywords, LowerOrEmpty(departure.destination),
              LowerOrEmpty(departure.direction))

\* The filter callback of fetchBadVoeslauDepartures.
isTrainToVienna(departure) ==
  LET destination == LowerOrEmpty(departure.destination)
      direction == LowerOrEmpty(departure.direction)
      hasWienKeyword == someKeyword(wienKeywords, destination, direction)
  IN  departure.lineMode = Some("train") /\ hasWienKeyword

\* prefix \s? digit, matched at position i of s.
matchCodeAt(s, i, prefix, digit) ==
  LET n == Len(prefix)
  IN  /\ i + n - 1 <= Len(s)
      /\ SubSeq(s, i, i + n - 1) = prefix
      /\ \/ (i + n <= Len(s) /\ s[i + n] = digit)
         \/ (i + n + 1 <= Len(s) /\ s[i + n] \in Whitespace /\ s[i + n + 1] = digit)

\* /(REX\s?1|REX\s?3|S\s?3)/.test(trainType)
isRelevantTrainType(trainType) ==
  \E i \in 1..Len(trainType) :
    \/ matchCodeAt(trainType, i, <<"R","E","X">>, "1")
    \/ matchCodeAt(trainType, i, <<"R","E","X">>, "3")
    \/ matchCodeAt(trainType, i, <<"S">>, "3")

\* The inbound callback with the keyword and the line code as alternatives.
isTrainToBadVoeslau_keywordOrCode(departure) ==
  /\ departure.lineMode = Some("train")
  /\ \/ someKeyword(routeKeywords, LowerOrEmpty(departure.destination),
                    LowerOrEmpty(departure.direction))
     \/ isRelevantTrainType(OrDefault(departure.lineName, <<>>))

\* The filter callback of fetchWienDepartures.
isTrainToBadVoeslau(departure) ==
  LET destination == LowerOrEmpty(departure.destination)
      direction == LowerOrEmpty(departure.direction)
      trainType == OrDefault(departure.lineName, <<>>)
      hasRouteKeyword == someKeyword(routeKeywords, destination, direction)
  IN  /\ departure.lineMode = Some("train")
      /\ hasRouteKeyword
      /\ isRelevantTrainType(trainType)

\* departuresList.filter(...) of fetchBadVoeslauDepartures.
RECURSIVE wienTrains(_)
wienTrains(departuresList) ==
  IF departuresList = <<>> THEN <<>>
  ELSE (IF isTrainToVienna(Head(departuresList))
        THEN <<Head(departuresList)>> ELSE <<>>)
       \o wienTrains(Tail(departuresList))

\* departuresList.filter(...) of fetchWienDepartures.
RECURSIVE badVoeslauTrains(_)
badVoeslauTrains(departuresList) ==
  IF departuresList = <<>> THEN <<>>
  ELSE (IF isTrainToBadVoeslau(Head(departuresList))
        THEN <<Head(departuresList)>> ELSE <<>>)
       \o badVoeslauTrains(Tail(departuresList))

\* ------------------------------------------------------------------------
\* transformTrainData
\* ------------------------------------------------------------------------
\* Europe/Vienna: summer time of 2025 runs from 30 March 01:00 UTC to
\* 26 October 01:00 UTC; the instants of the model lie in that year.
DstStart == 1743296400
DstEnd == 1761440400
OffsetCET == 3600
OffsetCEST == 7200
utcOffset(t) == IF t >= DstStart /\ t < DstEnd THEN OffsetCEST ELSE OffsetCET

Digits == <<"0","1","2","3","4","5","6","7","8","9">>
twoDigit(n) == <<Digits[(n \div 10) + 1], Digits[(n % 10) + 1]>>

\* toLocaleTimeString('de-AT', {hour: '2-digit', minute: '2-digit',
\* timeZone: 'Europe/Vienna'}) of the instant t.
toLocaleTimeString(t) ==
  LET local == t + utcOffset(t)
      hour == (local \div 3600) % 24
      minute == (local \div 60) % 60
  IN  twoDigit(hour) \o <<":">> \o twoDigit(minute)

\* departure.delay as a condition: null, undefined and 0 are falsy.
delayTruthy(departure) == IsSome(departure.delay) /\ Val(departure.delay) # 0

\* The condition of rt without the comparison with 0.
hasRealtime_anyDelay(departure) == delayTruthy(departure)

\* departure.delay && departure.delay > 0
hasRealtime(departure) == delayTruthy(departure) /\ Val(departure.delay) > 0

\* The callback with rt.dlt formatted from the scheduled time.
transformDeparture_unshifted(departure) ==
  [ti |-> IF IsSome(departure.when)
          THEN toLocaleTimeString(Val(departure.when)) ELSE strNA,
   st |-> OrDefault(departure.destination, strUnknown),
   pr |-> OrDefault(departure.lineName, strUnknown),
   tr |-> OrDefault(departure.platform, <<>>),
   rt |-> IF hasRealtime(departure)
          THEN Some([dlt |-> IF IsSome(departure.when)
                             THEN Some(toLocaleTimeString(Val(departure.when)))
                             ELSE None])
          ELSE None,
   direction |-> OrDefault(departure.direction, <<>>),
   delay |-> IF delayTruthy(departure) THEN Val(departure.delay) ELSE 0,
   cancelled |-> IF IsSome(departure.cancelled) THEN Val(departure.cancelled) ELSE FALSE]

\* The callback of trains.map in transformTrainData.  rt is None where the
\* code yields undefined; dlt is None where the code yields null.
transformDeparture(departure) ==
  LET scheduledTime == departure.when
      actualTime == IF delayTruthy(departure) /\ IsSome(scheduledTime)
                    THEN Some(Val(scheduledTime) + Val(departure.delay))
                    ELSE None
  IN  [ti |-> IF IsSome(scheduledTime)
              THEN toLocaleTimeString(Val(scheduledTime)) ELSE strNA,
       st |-> OrDefault(departure.destination, strUnknown),
       pr |-> OrDefault(departure.lineName, strUnknown),
       tr |-> OrDefault(departure.platform, <<>>),
       rt |-> IF hasRealtime(departure)
              THEN Some([dlt |-> IF IsSome(actualTime)
                                 THEN Some(toLocaleTimeString(Val(actualTime)))
                                 ELSE None])
              ELSE None,
       direction |-> OrDefault(departure.direction, <<>>),
       delay |-> IF delayTruthy(departure) THEN Val(departure.delay) ELSE 0,
       cancelled |-> IF IsSome(departure.cancelled) THEN Val(departure.cancelled) ELSE FALSE]

transformTrainData(trains) ==
  [i \in 1..Len(trains) |-> transformDeparture(trains[i])]

\* JSON.stringify of one output record: a key whose value is undefined is
\* left out, a null value is written as null (None).
stringifyTrain(r) ==
  LET base == [ti |-> r.ti, st |-> r.st, pr |-> r.pr, tr |-> r.tr,
               direction |-> r.direction, delay |-> r.delay,
               cancelled |-> r.cancelled]
  IN  IF IsSome(r.rt) THEN base @@ [rt |-> Val(r.rt)] ELSE base

stringifyTrains(list) == [i \in 1..Len(list) |-> stringifyTrain(list[i])]

\* JSON.stringify of a station of the snapshot: {name, id}, the name left
\* out when it is undefined.
stringifyStation(st) ==
  IF IsSome(st.name) THEN [id |-> st.id, name |-> Val(st.name)] ELSE [id |-> st.id]

\* ------------------------------------------------------------------------
\* Inputs of the model
\* ------------------------------------------------------------------------
TimeNoon == DstEnd - 10069200    \* 2025-07-01 12:00:00 UTC, 14:00 in Vienna
TimeLate == DstEnd - 11400        \* 2025-10-25 21:50:00 UTC, 23:50 in Vienna
TimeDstNight == DstEnd - 1800     \* 2025-10-26 00:30:00 UTC, 02:30 in Vienna (CEST)

stBadVoeslau == Station(<<"1">>, Some(sBadVoeslauUml))
stBaden == Station(<<"2">>, Some(sBaden))
stWienHbf == Station(<<"3">>, Some(sWienHbf))
stWienHauptbahnhof == Station(<<"4">>, Some(sWienHauptbahnhof))
stNameless == Station(<<"5">>, None)
stBadVoeslauUpper == Station(<<"6">>, Some(sBADVOESLAUUml))
stWienMeidling == Station(<<"7">>, Some(sWienMeidling))

\* Candidates the search for 'Bad Vöslau' and the search for
\* 'Wien Hauptbahnhof' can return.
BadVoeslauCandidates == {stBadVoeslau, stBadVoeslauUpper, stBaden, stNameless}
WienCandidates == {stWienHbf, stWienHauptbahnhof, stWienMeidling, stNameless}

\* Departures of the pipelines: a delayed train to Wien Hbf, a train to
\* Wr.Neustadt on REX 3, a bus to Wien Hbf by way of Bad Vöslau.
depWienDelayed ==
  Dep(Some(sWienHbf), None, Some(sREX_1), Some("train"), Some(TimeNoon), Some(120),
      Some(sPlatform2), None)
depNeustadtRex ==
  Dep(Some(sWrNeustadt), None, Some(sREX_3), Some("train"), Some(TimeNoon), None,
      None, None)
depWienBus ==
  Dep(Some(sWienHbf), Some(sBadVoeslauUml), Some(sS_3), Some("bus"), Some(TimeNoon),
      None, None, None)
DepPool == {depWienDelayed, depNeustadtRex, depWienBus}

\* Departures for the filters alone: every field the predicates read varies.
FDep(destination, direction, lineName, lineMode) ==
  Dep(destination, direction, lineName, lineMode, Some(TimeNoon), None, None, None)
FilterPool ==
  { FDep(Some(sWienHbf), None, Some(sREX_3), Some("train")),
    FDep(Some(sBaden), Some(sWIEN), Some(sS_1), Some("train")),
    FDep(Some(sVienna), None, None, Some("train")),
    FDep(Some(sWienHbf), Some(sBadVoeslauUml), Some(sS_3), Some("bus")),
    FDep(Some(sWienHbf), None, Some(sREX_1), None),
    FDep(Some(sWrNeustadt), None, Some(sREX_3), Some("train")),
    FDep(Some(sWienerNeustadt), None, Some(sRJ131), Some("train")),
    FDep(Some(sBADVOESLAUUml), None, Some(sS3), Some("train")),
    FDep(None, Some(sBadVoeslau), Some(sREX1), Some("train")),
    FDep(Some(sWrNeustadt), None, Some(srex3), Some("train")),
    FDep(Some(sWrNeustadt), None, Some(sREXtab3), Some("train")),
    FDep(Some(sBadVoeslauUml), None, Some(sS_30), Some("train")),
    FDep(Some(sPayerbach), None, Some(sS_3), Some("train")),
    FDep(None, None, None, Some("train")) }

\* Departures for transformTrainData alone: scheduled time and delay vary.
TransformWhens == {None, Some(TimeNoon), Some(TimeLate), Some(TimeDstNight)}
TransformDelays ==
  {None, Some(0), Some(-60), Some(30), Some(60), Some(120), Some(3600), Some(86400)}
TransformPool ==
  { Dep(Some(sWienHbf), None, Some(sREX_1), Some("train"), w, d, Some(sPlatform2), None) :
      w \in TransformWhens, d \in TransformDelays }
  \cup { Dep(None, Some(sWIEN), None, Some("train"), Some(TimeNoon), Some(120), None,
             Some(TRUE)) }

\* new Date().toISOString() at the time of assembly.
Clock == {"2025-07-01T11:58:00.000Z", "2025-07-01T11:59:00.000Z"}

\* What hafas.locations can settle with: a list, a missing result, or a
\* rejection.
LocationsResponses(candidates) ==
  {[ok |-> TRUE, value |-> Some(l)] : l \in SeqsUpTo(candidates, MaxStations)}
  \cup {[ok |-> TRUE, value |-> None], [ok |-> FALSE, value |-> None]}

\* What hafas.departures can settle with: a bare list, an object carrying a
\* departures list, an object without one, null, or a rejection.
DeparturesResponses ==
  {[ok |-> TRUE, shape |-> sh, list |-> l] :
     sh \in {"list", "object"}, l \in SeqsUpTo(DepPool, MaxDeps)}
  \cup {[ok |-> TRUE, shape |-> sh, list |-> <<>>] : sh \in {"objectNoList", "null"}}
  \cup {[ok |-> FALSE, shape |-> "null", list |-> <<>>]}

\* The kind of answer of hafas.locations.
searchKind(resp) ==
  IF ~resp.ok THEN "error"
  ELSE IF ~IsSome(resp.value) THEN "missing"
  ELSE IF Len(Val(resp.value)) = 0 THEN "empty"
  ELSE "list"

\* The kind of answer of hafas.departures: "error" for a rejection, "null"
\* for a missing result, "objectNoList" for an object without a departures
\* list, "empty" for an empty list (bare or carried), "list" for a bare
\* non-empty list, "object" for an object carrying a non-empty list.
answerKind(resp) ==
  IF ~resp.ok THEN "error"
  ELSE IF resp.shape \in {"list", "object"} /\ resp.list = <<>> THEN "empty"
  ELSE resp.shape

\* departures.departures || departures || [] followed by the uses of
\* departuresList (.length, .filter): the list, or None where the code throws
\* a TypeError (null has no property departures; an object without a list has
\* no filter method).
departuresListOf(resp) ==
  IF resp.shape \in {"list", "object"} THEN Some(resp.list) ELSE None

\* ------------------------------------------------------------------------
\* State
\* ------------------------------------------------------------------------
VARIABLES
  mainPc,           \* fetchDepartures: "init", "await", "written", "caught", and
                    \* the ends "returned", "exitEmpty" (line 255), "exitCatch" (line 260)
  bvPc,             \* fetchBadVoeslauDepartures: "idle", "locations", "departures", "settled"
  bvSearch,         \* what hafas.locations answered it: "none" so far, "error",
                    \* "missing", "empty" or "list"
  bvStations,       \* its local stations
  bvStation,        \* its local badVoeslauStation
  bvDepCall,        \* the station id it passed to hafas.departures, if any
  bvAnswer,         \* what hafas.departures answered it: "none" so far, or the
                    \* kind of the answer
  badVoeslauData,   \* its entry in the result of Promise.allSettled
  wienPc,           \* fetchWienDepartures, as bvPc
  wienSearch,
  wienStations,
  wienStation,
  wienDepCall,
  wienAnswer,
  wienData,
  firstSettled,     \* the pipeline that settled first: "none" so far,
                    \* "badVoeslau" or "wien"
  output,           \* the snapshot object of fetchDepartures
  file,             \* the content of departures.json
  writes,           \* completed writeFileSync calls of this run
  exitCode,         \* the exit code of the node process
  shell,            \* run_app.sh: "node", "streamlit", "exit1"
  fPc, fIn, fOut,   \* a filter applied on its own
  tPc, tIn, tOut, tJson  \* transformTrainData applied on its own

bvVars == <<bvPc, bvSearch, bvStations, bvStation, bvDepCall, bvAnswer, badVoeslauData>>
wienVars ==
  <<wienPc, wienSearch, wienStations, wienStation, wienDepCall, wienAnswer, wienData>>
pipelineVars == <<bvVars, wienVars, firstSettled>>
mainVars == <<mainPc, output, file, writes, exitCode, shell>>
filterVars == <<fPc, fIn, fOut>>
transformVars == <<tPc, tIn, tOut, tJson>>
vars == <<mainVars, pipelineVars, filterVars, transformVars>>

Pending == [status |-> "pending", value |-> None, reason |-> None]
Fulfilled(station, trains) ==
  [status |-> "fulfilled", value |-> Some([station |-> station, trains |-> trains]),
   reason |-> None]
Rejected(reason) == [status |-> "rejected", value |-> None, reason |-> Some(reason)]

InitMain ==
  /\ mainPc = "init"
  /\ bvPc = "idle" /\ bvSearch = "none" /\ bvStations = None /\ bvStation = None /\ bvDepCall = None
  /\ bvAnswer = "none" /\ badVoeslauData = Pending
  /\ wienPc = "idle" /\ wienSearch = "none" /\ wienStations = None
  /\ wienStation = None /\ wienDepCall = None
  /\ wienAnswer = "none" /\ wienData = Pending
  /\ firstSettled = "none"
  /\ output = None /\ file = None /\ writes = 0 /\ exitCode = None /\ shell = "node"
InitFilterIdle == fPc = "idle" /\ fIn = <<>> /\ fOut = <<>>
InitTransformIdle == tPc = "idle" /\ tIn = <<>> /\ tOut = <<>> /\ tJson = <<>>

Init == InitMain /\ InitFilterIdle /\ InitTransformIdle

\* ------------------------------------------------------------------------
\* fetchBadVoeslauDepartures
\* ------------------------------------------------------------------------
\* The same without the test of stations.length: on an empty list find
\* yields undefined, stations[0] is undefined, and reading its name throws a
\* TypeError.
fetchBadVoeslauLocations_noLengthCheck(resp) ==
  /\ bvPc = "locations"
  /\ bvSearch' = searchKind(resp)
  /\ IF ~resp.ok
     THEN /\ badVoeslauData' = Rejected("UpstreamFetchFailure")
          /\ bvPc' = "settled"
          /\ UNCHANGED <<bvStations, bvStation, bvDepCall>>
     ELSE IF ~IsSome(resp.value)
     THEN /\ badVoeslauData' = Rejected("NoStationsFound")
          /\ bvPc' = "settled"
          /\ UNCHANGED <<bvStations, bvStation, bvDepCall>>
     ELSE IF Len(Val(resp.value)) = 0
     THEN /\ badVoeslauData' = Rejected("TypeError")
          /\ bvPc' = "settled"
          /\ UNCHANGED <<bvStations, bvStation, bvDepCall>>
     ELSE /\ bvStations' = resp.value
          /\ bvStation' = Some(resolveBadVoeslauStation(Val(resp.value)))
          /\ bvDepCall' = Some(resolveBadVoeslauStation(Val(resp.value)).id)
          /\ bvPc' = "departures"
          /\ UNCHANGED badVoeslauData
  /\ firstSettled' = IF bvPc' = "settled" /\ firstSettled = "none"
                     THEN "badVoeslau" ELSE firstSettled
  /\ UNCHANGED <<bvAnswer, mainVars, wienVars, filterVars, transformVars>>

\* hafas.locations settles with resp; the function runs up to the call of
\* hafas.departures, or throws.
fetchBadVoeslauLocations(resp) ==
  /\ bvPc = "locations"
  /\ bvSearch' = searchKind(resp)
  /\ IF ~resp.ok
     THEN /\ badVoeslauData' = Rejected("UpstreamFetchFailure")
          /\ bvPc' = "settled"
          /\ UNCHANGED <<bvStations, bvStation, bvDepCall>>
     ELSE IF ~IsSome(resp.value) \/ Len(Val(resp.value)) = 0
     THEN /\ badVoeslauData' = Rejected("NoStationsFound")
          /\ bvPc' = "settled"
          /\ UNCHANGED <<bvStations, bvStation, bvDepCall>>
     ELSE /\ bvStations' = resp.value
          /\ bvStation' = Some(resolveBadVoeslauStation(Val(resp.value)))
          /\ bvDepCall' = Some(resolveBadVoeslauStation(Val(resp.value)).id)
          /\ bvPc' = "departures"
          /\ UNCHANGED badVoeslauData
  /\ firstSettled' = IF bvPc' = "settled" /\ firstSettled = "none"
                     THEN "badVoeslau" ELSE firstSettled
  /\ UNCHANGED <<bvAnswer, mainVars, wienVars, filterVars, transformVars>>

\* hafas.departures settles with resp; the function filters and returns, or
\* throws.  Its locals end with it.
fetchBadVoeslauDepartures(resp) ==
  /\ bvPc = "departures"
  /\ badVoeslauData' =
       IF ~resp.ok THEN Rejected("UpstreamFetchFailure")
       ELSE IF ~IsSome(departuresListOf(resp)) THEN Rejected("TypeError")
       ELSE Fulfilled(Val(bvStation), wienTrains(Val(departuresListOf(resp))))
  /\ bvPc' = "settled"
  /\ bvStations' = None
  /\ bvStation' = None
  /\ bvAnswer' = answerKind(resp)
  /\ firstSettled' = IF firstSettled = "none" THEN "badVoeslau" ELSE firstSettled
  /\ UNCHANGED <<bvSearch, bvDepCall, mainVars, wienVars, filterVars, transformVars>>

\* ------------------------------------------------------------------------
\* fetchWienDepartures
\* ------------------------------------------------------------------------
fetchWienLocations(resp) ==
  /\ wienPc = "locations"
  /\ wienSearch' = searchKind(resp)
  /\ IF ~resp.ok
     THEN /\ wienData' = Rejected("UpstreamFetchFailure")
          /\ wienPc' = "settled"
          /\ UNCHANGED <<wienStations, wienStation, wienDepCall>>
     ELSE /\ wienStations' = resp.value
          /\ wienStation' = Some(resolveWienStation(resp.value))
          /\ wienDepCall' = Some(resolveWienStation(resp.value).id)
          /\ wienPc' = "departures"
          /\ UNCHANGED wienData
  /\ firstSettled' = IF wienPc' = "settled" /\ firstSettled = "none"
                     THEN "wien" ELSE firstSettled
  /\ UNCHANGED <<wienAnswer, mainVars, bvVars, filterVars, transformVars>>

fetchWienDepartures(resp) ==
  /\ wienPc = "departures"
  /\ wienData' =
       IF ~resp.ok THEN Rejected("UpstreamFetchFailure")
       ELSE IF ~IsSome(departuresListOf(resp)) THEN Rejected("TypeError")
       ELSE Fulfilled(Val(wienStation), badVoeslauTrains(Val(departuresListOf(resp))))
  /\ wienPc' = "settled"
  /\ wienStations' = None
  /\ wienStation' = None
  /\ wienAnswer' = answerKind(resp)
  /\ firstSettled' = IF firstSettled = "none" THEN "wien" ELSE firstSettled
  /\ UNCHANGED <<wienSearch, wienDepCall, mainVars, bvVars, filterVars, transformVars>>

\* ------------------------------------------------------------------------
\* fetchDepartures
\* ------------------------------------------------------------------------
\* The list and the station one settled direction contributes.
settledTrains(data) ==
  IF data.status = "fulfilled" THEN transformTrainData(Val(data.value).trains) ELSE <<>>
settledStation(data) ==
  IF data.status = "fulfilled"
  THEN Some([name |-> Val(data.value).station.name, id |-> Val(data.value).station.id])
  ELSE None

\* The same with the semantics of Promise.all: one rejection empties both
\* directions.
assembleOutput_allOrNothing(bvData, wData, now) ==
  LET ok == bvData.status = "fulfilled" /\ wData.status = "fulfilled"
  IN  [badVoeslauToWien |-> IF ok THEN settledTrains(bvData) ELSE <<>>,
       wienToBadVoeslau |-> IF ok THEN settledTrains(wData) ELSE <<>>,
       lastUpdated |-> now,
       stations |-> [badVoeslau |-> IF ok THEN settledStation(bvData) ELSE None,
                     wienHbf |-> IF ok THEN settledStation(wData) ELSE None]]

\* The output object built from the two settled results.
assembleOutput(bvData, wData, now) ==
  [badVoeslauToWien |-> settledTrains(bvData),
   wienToBadVoeslau |-> settledTrains(wData),
   lastUpdated |-> now,
   stations |-> [badVoeslau |-> settledStation(bvData),
                 wienHbf |-> settledStation(wData)]]

\* JSON.stringify(output, null, 2), as the document it denotes.
stringifyOutput(o) ==
  [badVoeslauToWien |-> stringifyTrains(o.badVoeslauToWien),
   wienToBadVoeslau |-> stringifyTrains(o.wienToBadVoeslau),
   lastUpdated |-> o.lastUpdated,
   stations |->
     [badVoeslau |-> IF IsSome(o.stations.badVoeslau)
                     THEN Some(stringifyStation(Val(o.stations.badVoeslau))) ELSE None,
      wienHbf |-> IF IsSome(o.stations.wienHbf)
                  THEN Some(stringifyStation(Val(o.stations.wienHbf))) ELSE None]]

\* The exit check with || in place of &&.
bothEmpty_either(o) == Len(o.badVoeslauToWien) = 0 \/ Len(o.wienToBadVoeslau) = 0

\* The exit check at the end of the try block.
bothEmpty(o) == Len(o.badVoeslauToWien) = 0 /\ Len(o.wienToBadVoeslau) = 0

\* The node process has ended.
Exited == mainPc \in {"returned", "exitEmpty", "exitCatch"}

\* The start with the first pipeline awaited before the second is called.
Start_sequential ==
  /\ mainPc = "init"
  /\ mainPc' = "await"
  /\ bvPc' = "locations"
  /\ UNCHANGED <<output, file, writes, exitCode, shell, wienPc,
                 bvSearch, bvStations, bvStation, bvDepCall, bvAnswer, badVoeslauData,
                 wienSearch, wienStations, wienStation, wienDepCall, wienAnswer,
                 wienData, firstSettled, filterVars, transformVars>>

\* fetchDepartures is called: both pipelines run up to their first await
\* before Promise.allSettled is awaited.
Start ==
  /\ mainPc = "init"
  /\ mainPc' = "await"
  /\ bvPc' = "locations"
  /\ wienPc' = "locations"
  /\ UNCHANGED <<output, file, writes, exitCode, shell,
                 bvSearch, bvStations, bvStation, bvDepCall, bvAnswer, badVoeslauData,
                 wienSearch, wienStations, wienStation, wienDepCall, wienAnswer,
                 wienData, firstSettled, filterVars, transformVars>>

\* The same with the write skipped when there is nothing to report.
AssembleAndWrite_skipEmptyWrite(now, writeOk) ==
  /\ mainPc = "await"
  /\ bvPc = "settled" /\ wienPc = "settled"
  /\ output' = Some(assembleOutput(badVoeslauData, wienData, now))
  /\ IF writeOk
     THEN /\ IF bothEmpty(assembleOutput(badVoeslauData, wienData, now))
             THEN UNCHANGED <<file, writes>>
             ELSE /\ file' = Some(stringifyOutput(
                                    assembleOutput(badVoeslauData, wienData, now)))
                  /\ writes' = writes + 1
          /\ mainPc' = "written"
     ELSE /\ UNCHANGED <<file, writes>>
          /\ mainPc' = "caught"
  /\ UNCHANGED <<exitCode, shell, pipelineVars, filterVars, transformVars>>

\* Promise.allSettled has resolved: the snapshot is assembled and
\* fs.writeFileSync either returns (writeOk) or throws.
AssembleAndWrite(now, writeOk) ==
  /\ mainPc = "await"
  /\ bvPc = "settled" /\ wienPc = "settled"
  /\ output' = Some(assembleOutput(badVoeslauData, wienData, now))
  /\ IF writeOk
     THEN /\ file' = Some(stringifyOutput(assembleOutput(badVoeslauData, wienData, now)))
          /\ writes' = writes + 1
          /\ mainPc' = "written"
     ELSE /\ UNCHANGED <<file, writes>>
          /\ mainPc' = "caught"
  /\ UNCHANGED <<exitCode, shell, pipelineVars, filterVars, transformVars>>

\* After the write: process.exit(1) when both lists are empty, otherwise the
\* function returns and the process ends with code 0.
ExitCheck ==
  /\ mainPc = "written"
  /\ exitCode' = IF bothEmpty(Val(output)) THEN Some(1) ELSE Some(0)
  /\ mainPc' = IF bothEmpty(Val(output)) THEN "exitEmpty" ELSE "returned"
  /\ UNCHANGED <<output, file, writes, shell, pipelineVars, filterVars, transformVars>>

\* The catch block: process.exit(1).
Catch ==
  /\ mainPc = "caught"
  /\ exitCode' = Some(1)
  /\ mainPc' = "exitCatch"
  /\ UNCHANGED <<output, file, writes, shell, pipelineVars, filterVars, transformVars>>

\* run_app.sh after node has ended: the app is started on exit code 0, the
\* script exits with 1 otherwise.
RunApp ==
  /\ Exited
  /\ shell = "node"
  /\ shell' = IF exitCode = Some(0) THEN "streamlit" ELSE "exit1"
  /\ UNCHANGED <<mainPc, output, file, writes, exitCode, pipelineVars,
                 filterVars, transformVars>>

Next ==
  \/ Start
  \/ \E resp \in LocationsResponses(BadVoeslauCandidates) : fetchBadVoeslauLocations(resp)
  \/ \E resp \in DeparturesResponses : fetchBadVoeslauDepartures(resp)
  \/ \E resp \in LocationsResponses(WienCandidates) : fetchWienLocations(resp)
  \/ \E resp \in DeparturesResponses : fetchWienDepartures(resp)
  \/ \E now \in Clock, writeOk \in BOOLEAN : AssembleAndWrite(now, writeOk)
  \/ ExitCheck
  \/ Catch
  \/ RunApp

Spec == Init /\ [][Next]_vars

\* ------------------------------------------------------------------------
\* The filters on their own
\* ------------------------------------------------------------------------
InitFilter ==
  /\ InitMain /\ InitTransformIdle
  /\ fPc = "input"
  /\ fIn \in SeqsUpTo(FilterPool, MaxFilterLen)
  /\ fOut = <<>>

FilterOutbound ==
  /\ fPc = "input"
  /\ fOut' = wienTrains(fIn)
  /\ fPc' = "outbound"
  /\ UNCHANGED <<fIn, mainVars, pipelineVars, transformVars>>

FilterInbound ==
  /\ fPc = "input"
  /\ fOut' = badVoeslauTrains(fIn)
  /\ fPc' = "inbound"
  /\ UNCHANGED <<fIn, mainVars, pipelineVars, transformVars>>

NextFilter == FilterOutbound \/ FilterInbound
SpecFilter == InitFilter /\ [][NextFilter]_vars

\* ------------------------------------------------------------------------
\* transformTrainData on its own, followed by JSON.stringify
\* ------------------------------------------------------------------------
InitTransform ==
  /\ InitMain /\ InitFilterIdle
  /\ tPc = "input"
  /\ tIn \in SeqsUpTo(TransformPool, MaxTrains)
  /\ tOut = <<>>
  /\ tJson = <<>>

Transform ==
  /\ tPc = "input"
  /\ tOut' = transformTrainData(tIn)
  /\ tPc' = "transformed"
  /\ UNCHANGED <<tIn, tJson, mainVars, pipelineVars, filterVars>>

Stringify ==
  /\ tPc = "transformed"
  /\ tJson' = stringifyTrains(tOut)
  /\ tPc' = "stringified"
  /\ UNCHANGED <<tIn, tOut, mainVars, pipelineVars, filterVars>>

NextTransform == Transform \/ Stringify
SpecTransform == InitTransform /\ [][NextTransform]_vars

\* ========================================================================
\* Properties
\* ========================================================================
\* What the claims say a settled direction contributes to the snapshot.
ContributedTrains(data) == transformTrainData(Val(data.value).trains)
ContributedStation(data) ==
  Some([name |-> Val(data.value).station.name, id |-> Val(data.value).station.id])

\* C1: in the snapshot a rejected direction has an empty list and a null
\* station, and a fulfilled direction has the list and the station its own
\* pipeline returned, whatever became of the other direction.
C1_FailureIsolation ==
  IsSome(output) =>
    LET o == Val(output)
    IN  /\ badVoeslauData.status = "rejected" =>
             o.badVoeslauToWien = <<>> /\ o.stations.badVoeslau = None
        /\ wienData.status = "rejected" =>
             o.wienToBadVoeslau = <<>> /\ o.stations.wienHbf = None
        /\ badVoeslauData.status = "fulfilled" =>
             /\ o.badVoeslauToWien = ContributedTrains(badVoeslauData)
             /\ o.stations.badVoeslau = ContributedStation(badVoeslauData)
        /\ wienData.status = "fulfilled" =>
             /\ o.wienToBadVoeslau = ContributedTrains(wienData)
             /\ o.stations.wienHbf = ContributedStation(wienData)
        /\ writes = 1 => file = Some(stringifyOutput(o))

\* One direction failed, the other delivered a departure, the file is written.
C1_Witness ==
  /\ writes = 1
  /\ badVoeslauData.status = "rejected"
  /\ wienData.status = "fulfilled"
  /\ Len(Val(output).wienToBadVoeslau) > 0
  /\ Val(file).badVoeslauToWien = <<>>
  /\ Val(file).stations.badVoeslau = None

\* C2 as stated: when both lists are empty the run ends with a nonzero exit
\* and the file, holding two empty lists, has been written before it.
C2_WrittenBeforeAnyFailure ==
  (Exited /\ bothEmpty(Val(output))) =>
    /\ exitCode = Some(1)
    /\ writes = 1
    /\ Val(file).badVoeslauToWien = <<>> /\ Val(file).wienToBadVoeslau = <<>>

\* C2, amended: when both lists are empty the run ends with a nonzero exit;
\* the exit of the both-empty check is reached only after the file, holding
\* two empty lists, has been written; the run ends without the file only
\* through the catch block, when the write itself threw.
C2_WrittenBeforeEmptyExit ==
  /\ (Exited /\ bothEmpty(Val(output))) => exitCode = Some(1)
  /\ mainPc = "exitEmpty" =>
       /\ bothEmpty(Val(output))
       /\ writes = 1
       /\ file = Some(stringifyOutput(Val(output)))
       /\ Val(file).badVoeslauToWien = <<>> /\ Val(file).wienToBadVoeslau = <<>>
  /\ (Exited /\ writes = 0) => mainPc = "exitCatch"

\* Both directions fulfilled with nothing kept: file written, exit 1.
C2_Witness ==
  /\ mainPc = "exitEmpty"
  /\ badVoeslauData.status = "fulfilled"
  /\ wienData.status = "fulfilled"
  /\ writes = 1
  /\ exitCode = Some(1)

\* C3: the exit code is 0 when a direction has a departure and the snapshot
\* was produced, and nonzero when both directions are empty or an error was
\* thrown before the snapshot was produced; run_app.sh starts the app exactly
\* on exit code 0.
C3_ExitCode ==
  Exited =>
    LET o == Val(output)
        some == Len(o.badVoeslauToWien) > 0 \/ Len(o.wienToBadVoeslau) > 0
        threw == writes = 0
    IN  /\ (some /\ ~threw) => exitCode = Some(0)
        /\ (~some \/ threw) => exitCode = Some(1)
        /\ shell = "streamlit" => exitCode = Some(0)
        /\ shell = "exit1" => exitCode = Some(1)

\* Exactly one direction failed, the other has a departure: exit 0, app started.
C3_Witness ==
  /\ Exited
  /\ wienData.status = "rejected"
  /\ badVoeslauData.status = "fulfilled"
  /\ Len(Val(output).badVoeslauToWien) > 0
  /\ exitCode = Some(0)
  /\ shell = "streamlit"

\* The lowercased text of a field that may be missing.
Lowered(o) == IF IsSome(o) THEN toLowerCase(Val(o)) ELSE <<>>

\* The destination name or the direction, lowercased, contains a keyword.
NamesKeyword(d, keywords) ==
  \E k \in keywords : includes(Lowered(d.destination), k) \/ includes(Lowered(d.direction), k)

\* The outbound condition as the claim words it.
OutboundKept(d) ==
  d.lineMode = Some("train") /\ NamesKeyword(d, {kwWien, kwVienna})

\* The line names of the filter inputs, and a missing one.
LineNames == {d.lineName : d \in FilterPool} \cup {None}

\* C4: the outbound filter keeps exactly the subsequence, in upstream order,
\* of the train-mode departures whose lowercased destination name or
\* direction contains "wien" or "vienna"; the line name plays no part and a
\* bus is never kept.
C4_OutboundFilter ==
  fPc = "outbound" =>
    /\ fOut = SelectSeq(fIn, OutboundKept)
    /\ \A i \in 1..Len(fIn) : \A n \in LineNames :
         wienTrains(<<[fIn[i] EXCEPT !.lineName = n]>>) = <<>>
           <=> wienTrains(<<fIn[i]>>) = <<>>
    /\ \A i \in 1..Len(fOut) : fOut[i].lineMode # Some("bus")

\* A bus to Wien is dropped and a train behind it is kept.
C4_Witness ==
  /\ fPc = "outbound"
  /\ Len(fIn) = 2
  /\ fIn[1].lineMode = Some("bus") /\ NamesKeyword(fIn[1], {kwWien, kwVienna})
  /\ fOut = <<fIn[2]>>

\* The line-code pattern: REX 1, REX 3 or S 3 anywhere in the name, the
\* space optional.
CodeVariants(prefix, digit) ==
  {prefix \o <<digit>>} \cup {prefix \o <<w, digit>> : w \in Whitespace}
MatchesLineCode(name) ==
  \E code \in CodeVariants(<<"R","E","X">>, "1") \cup CodeVariants(<<"R","E","X">>, "3")
                \cup CodeVariants(<<"S">>, "3") :
    includes(name, code)

InboundKeyword(d) ==
  NamesKeyword(d, {kwWrNeustadt, kwWienerNeustadt, kwBadVoeslauUml, kwBadVoeslau})
InboundCode(d) == IsSome(d.lineName) /\ MatchesLineCode(Val(d.lineName))
InboundKept(d) == d.lineMode = Some("train") /\ InboundKeyword(d) /\ InboundCode(d)

\* C5: the inbound filter keeps exactly the subsequence, in upstream order, of
\* the departures that are train-mode, name a route keyword in destination or
\* direction, and carry a line name matching the line-code pattern; the
\* keyword alone or the line code alone is not enough.
C5_InboundFilter ==
  fPc = "inbound" =>
    /\ fOut = SelectSeq(fIn, InboundKept)
    /\ \A i \in 1..Len(fOut) :
         fOut[i].lineMode = Some("train") /\ InboundKeyword(fOut[i]) /\ InboundCode(fOut[i])

\* A train with the keyword only and a train with the line code only are
\* both dropped.
C5_Witness ==
  /\ fPc = "inbound"
  /\ Len(fIn) = 2
  /\ fIn[1].lineMode = Some("train") /\ InboundKeyword(fIn[1]) /\ ~InboundCode(fIn[1])
  /\ fIn[2].lineMode = Some("train") /\ ~InboundKeyword(fIn[2]) /\ InboundCode(fIn[2])
  /\ fOut = <<>>

\* The delay of a raw departure is present and not 0 / present and above 0.
NonZeroDelay(d) == IsSome(d.delay) /\ Val(d.delay) # 0
PositiveDelay(d) == IsSome(d.delay) /\ Val(d.delay) > 0

\* The time of day of scheduled + delay, for a departure that has both.
DelayedTime(d) == toLocaleTimeString(Val(d.when) + Val(d.delay))

\* The written record j carries rt with this dlt.
HasDlt(j, dlt) == IF "rt" \in DOMAIN j THEN j.rt.dlt = dlt ELSE FALSE
HasSomeDlt(j) == IF "rt" \in DOMAIN j THEN IsSome(j.rt.dlt) ELSE FALSE

\* C6 as stated: rt is present exactly when the delay is present and
\* non-zero, and then carries the computed actual time; otherwise the
\* record has no rt key at all.
C6_RtIffNonZeroDelay ==
  tPc = "stringified" =>
    \A i \in 1..Len(tIn) :
      /\ IsSome(tOut[i].rt) <=> NonZeroDelay(tIn[i])
      /\ "rt" \in DOMAIN tJson[i] <=> NonZeroDelay(tIn[i])
      /\ NonZeroDelay(tIn[i]) =>
           /\ HasSomeDlt(tJson[i])
           /\ IsSome(tIn[i].when) => HasDlt(tJson[i], Some(DelayedTime(tIn[i])))

\* C6, amended: rt is present exactly when the delay is present and greater
\* than 0, and then rt.dlt is the time of scheduled + delay, or null when the
\* scheduled time is missing; for a delay that is 0, negative or absent the
\* record has no rt key at all, so never a null-valued one.
C6_RtIffPositiveDelay ==
  tPc = "stringified" =>
    \A i \in 1..Len(tIn) :
      /\ IsSome(tOut[i].rt) <=> PositiveDelay(tIn[i])
      /\ "rt" \in DOMAIN tJson[i] <=> PositiveDelay(tIn[i])
      /\ PositiveDelay(tIn[i]) =>
           HasDlt(tJson[i], IF IsSome(tIn[i].when)
                            THEN Some(DelayedTime(tIn[i])) ELSE None)

\* An early train (delay -60) without rt next to a late one (delay 120)
\* with rt.
C6_Witness ==
  /\ tPc = "stringified"
  /\ Len(tIn) = 2
  /\ tIn[1].delay = Some(-60) /\ "rt" \notin DOMAIN tJson[1]
  /\ tIn[2].delay = Some(120) /\ IsSome(tIn[2].when) /\ HasSomeDlt(tJson[2])

\* "HH:MM" read back as minutes since midnight.
DigitValue(c) == (CHOOSE k \in 1..10 : Digits[k] = c) - 1
MinuteOfDay(t) ==
  (DigitValue(t[1]) * 10 + DigitValue(t[2])) * 60 + DigitValue(t[4]) * 10 + DigitValue(t[5])

\* C7 as stated: for delay > 0, rt.dlt is the time of day of scheduled +
\* delay, never null, and never the scheduled minute when the delay is a
\* whole number of minutes.
C7_DelayedTimeAlways ==
  tPc = "stringified" =>
    \A i \in 1..Len(tIn) :
      PositiveDelay(tIn[i]) =>
        /\ HasSomeDlt(tJson[i])
        /\ IsSome(tIn[i].when) => HasDlt(tJson[i], Some(DelayedTime(tIn[i])))
        /\ Val(tIn[i].delay) % 60 = 0 => ~HasDlt(tJson[i], Some(tJson[i].ti))

\* C7, amended: for delay > 0 and a scheduled time, rt.dlt is the time of
\* day of scheduled + delay and not null; without a scheduled time it is
\* null.  When the delay is a whole number of minutes and the zone's offset
\* is the same at both instants, rt.dlt is ti moved on by the delay modulo
\* 24 hours, so it differs from ti unless the delay is a multiple of 24 hours.
C7_DelayedTime ==
  tPc = "stringified" =>
    \A i \in 1..Len(tIn) :
      PositiveDelay(tIn[i]) =>
        IF IsSome(tIn[i].when)
        THEN LET t == Val(tIn[i].when)
                 delay == Val(tIn[i].delay)
             IN  /\ HasDlt(tJson[i], Some(DelayedTime(tIn[i])))
                 /\ (delay % 60 = 0 /\ utcOffset(t) = utcOffset(t + delay)) =>
                      /\ MinuteOfDay(Val(tJson[i].rt.dlt))
                           = (MinuteOfDay(tJson[i].ti) + delay \div 60) % 1440
                      /\ delay % 86400 # 0 => tJson[i].rt.dlt # Some(tJson[i].ti)
        ELSE HasDlt(tJson[i], None)

\* 23:50 delayed by an hour is written as 00:50.
C7_Witness ==
  /\ tPc = "stringified"
  /\ Len(tIn) = 1
  /\ tIn[1].delay = Some(3600)
  /\ tJson[1].ti = <<"2","3",":","5","0">>
  /\ HasDlt(tJson[1], Some(<<"0","0",":","5","0">>))

\* The lowercased name of a candidate contains the expected text.
OriginMatch(st) == includes(Lowered(st.name), kwBadVoeslauUml)
DestinationMatch(st) ==
  includes(Lowered(st.name), kwWienHbf) \/ includes(Lowered(st.name), kwWienHauptbahnhof)

\* st is the first candidate of list that matches.
IsFirstMatch(list, Match(_), st) ==
  \E i \in 1..Len(list) :
    /\ Match(list[i])
    /\ \A j \in 1..(i - 1) : ~Match(list[j])
    /\ st = list[i]
NoMatch(list, Match(_)) == \A i \in 1..Len(list) : ~Match(list[i])

\* C8: when the search result holds a candidate whose lowercased name
\* contains the expected text, the resolved station is the first such
\* candidate, however many others precede it, and the departures are fetched
\* for its id.
C8_FirstMatchResolved ==
  /\ (bvPc = "departures" /\ ~NoMatch(Val(bvStations), OriginMatch)) =>
       /\ IsFirstMatch(Val(bvStations), OriginMatch, Val(bvStation))
       /\ bvDepCall = Some(Val(bvStation).id)
  /\ (wienPc = "departures" /\ IsSome(wienStations)
        /\ ~NoMatch(Val(wienStations), DestinationMatch)) =>
       /\ IsFirstMatch(Val(wienStations), DestinationMatch, Val(wienStation))
       /\ wienDepCall = Some(Val(wienStation).id)

\* In both directions the match is the second candidate and is resolved.
C8_Witness ==
  /\ bvPc = "departures" /\ wienPc = "departures"
  /\ IsSome(wienStations)
  /\ Len(Val(bvStations)) = 2 /\ Len(Val(wienStations)) = 2
  /\ ~OriginMatch(Val(bvStations)[1]) /\ OriginMatch(Val(bvStations)[2])
  /\ bvStation = Some(Val(bvStations)[2])
  /\ ~DestinationMatch(Val(wienStations)[1]) /\ DestinationMatch(Val(wienStations)[2])
  /\ wienStation = Some(Val(wienStations)[2])

\* C9: on a non-empty search result without a match the origin resolver
\* takes the first returned candidate, the destination resolver takes the
\* hardcoded fallback pair and none of the returned candidates, and the
\* departures are fetched for the id of the station so resolved.
C9_FallbackResolved ==
  /\ (bvPc = "departures" /\ NoMatch(Val(bvStations), OriginMatch)) =>
       /\ bvStation = Some(Val(bvStations)[1])
       /\ bvDepCall = Some(Val(bvStations)[1].id)
  /\ (wienPc = "departures" /\ IsSome(wienStations) /\ Len(Val(wienStations)) > 0
        /\ NoMatch(Val(wienStations), DestinationMatch)) =>
       /\ wienStation = Some([id |-> strFallbackId, name |-> Some(strFallbackName)])
       /\ \A i \in 1..Len(Val(wienStations)) : Val(wienStation) # Val(wienStations)[i]
       /\ wienDepCall = Some(strFallbackId)

\* Both searches returned two candidates, none matching.
C9_Witness ==
  /\ bvPc = "departures" /\ wienPc = "departures"
  /\ IsSome(wienStations)
  /\ Len(Val(bvStations)) = 2 /\ NoMatch(Val(bvStations), OriginMatch)
  /\ Len(Val(wienStations)) = 2 /\ NoMatch(Val(wienStations), DestinationMatch)
  /\ bvDepCall = Some(Val(bvStations)[1].id)
  /\ wienDepCall = Some(strFallbackId)

\* A direction that failed with NoStationsFound, fetched no departures and
\* has an empty list and a null station in the snapshot.
FailsNoStations(data, depCall, list, station) ==
  /\ data = Rejected("NoStationsFound")
  /\ depCall = None
  /\ IsSome(output) => list = <<>> /\ station = None

\* C10 as stated: in either direction an empty search result makes the
\* pipeline fail with NoStationsFound without a departures fetch, and the
\* direction's list is empty and its station null.
C10_EmptySearchFailsBoth ==
  /\ bvSearch = "empty" =>
       FailsNoStations(badVoeslauData, bvDepCall,
                       Val(output).badVoeslauToWien, Val(output).stations.badVoeslau)
  /\ wienSearch = "empty" =>
       FailsNoStations(wienData, wienDepCall,
                       Val(output).wienToBadVoeslau, Val(output).stations.wienHbf)

\* C10, amended: in the origin direction an empty search result makes the
\* pipeline fail with NoStationsFound without a departures fetch, and the
\* direction's list is empty and its station null, whatever the other
\* direction does; in the destination direction an empty search result makes
\* the pipeline take the fallback station and fetch departures for its id,
\* and it never fails with NoStationsFound.
C10_EmptySearch ==
  /\ bvSearch = "empty" =>
       /\ bvPc = "settled"
       /\ FailsNoStations(badVoeslauData, bvDepCall,
                          Val(output).badVoeslauToWien, Val(output).stations.badVoeslau)
  /\ wienSearch = "empty" =>
       /\ wienDepCall = Some(strFallbackId)
       /\ wienPc = "departures" => wienStation = Some(wienFallbackStation)
       /\ wienData.status = "fulfilled" =>
            Val(wienData.value).station = wienFallbackStation
  /\ wienData.reason # Some("NoStationsFound")

\* The origin search came back empty, the destination search too; the
\* destination still delivered a departure from the fallback station.
C10_Witness ==
  /\ bvSearch = "empty" /\ wienSearch = "empty"
  /\ writes = 1
  /\ Val(output).badVoeslauToWien = <<>> /\ Val(output).stations.badVoeslau = None
  /\ Len(Val(output).wienToBadVoeslau) > 0
  /\ Val(output).stations.wienHbf =
       Some([name |-> Some(strFallbackName), id |-> strFallbackId])

\* What hafas.departures can answer without rejecting, and the answers
\* without a non-empty list.
AnswerShapes == {"list", "object", "empty", "null", "objectNoList"}
EmptyShapes == {"empty", "null", "objectNoList"}

\* The direction obtained a list from the answer and went on to filter it.
ObtainedList(answer, data) ==
  /\ data.status = "fulfilled"
  /\ answer \in EmptyShapes => Val(data.value).trains = <<>>

\* C11: whatever shape hafas.departures answers with (a bare list, an object
\* carrying a departures list, an empty list, a missing result, an object
\* without a departures list), the pipeline obtains a list, empty in the
\* missing and empty cases, and filters it without an error for that
\* direction.
C11_EveryShapeYieldsList ==
  /\ bvAnswer \in AnswerShapes => ObtainedList(bvAnswer, badVoeslauData)
  /\ wienAnswer \in AnswerShapes => ObtainedList(wienAnswer, wienData)

\* Both pipelines are outstanding as soon as fetchDepartures awaits, the file
\* is written at most once and only after both have settled, and what is
\* written is fixed by the two settled results and the time of assembly.
C12_StateOK ==
  /\ mainPc = "init" <=> bvPc = "idle"
  /\ bvPc = "idle" <=> wienPc = "idle"
  /\ writes <= 1
  /\ (writes = 1 \/ IsSome(output) \/ mainPc \notin {"init", "await"}) =>
       bvPc = "settled" /\ wienPc = "settled"
  /\ writes = 1 =>
       file = Some(stringifyOutput(
                assembleOutput(badVoeslauData, wienData, Val(output).lastUpdated)))

\* A step of one pipeline leaves the other pipeline as it was, a settled
\* result never changes, and the file is written only from the state in which
\* both have settled and nothing was written.
C12_StepOK ==
  /\ (mainPc # "init" /\ bvVars' # bvVars) => wienVars' = wienVars
  /\ (mainPc # "init" /\ wienVars' # wienVars) => bvVars' = bvVars
  /\ bvPc = "settled" => bvVars' = bvVars
  /\ wienPc = "settled" => wienVars' = wienVars
  /\ firstSettled # "none" => firstSettled' = firstSettled
  /\ (writes' # writes \/ file' # file) =>
       bvPc = "settled" /\ wienPc = "settled" /\ writes = 0 /\ writes' = 1

\* C12: in every interleaving both pipelines are started before either
\* result is awaited, neither pipeline's settling cancels or alters the
\* other, the snapshot file is written at most once and never before both
\* have settled, and its content does not depend on which settled first.
C12_ConcurrentIsolated == []C12_StateOK /\ [][C12_StepOK]_vars

\* The destination pipeline settled first, the origin pipeline later, and the
\* file holds departures of both.
C12_Witness ==
  /\ firstSettled = "wien"
  /\ writes = 1
  /\ Len(Val(file).badVoeslauToWien) > 0
  /\ Len(Val(file).wienToBadVoeslau) > 0

====
